---- MODULE Spec2Model ----
(***************************************************************************)
(* CommCoreModule (native/cpp/CommonCpp/NativeModules/CommCoreModule.cpp): *)
(* the facade that runs storage and crypto work on worker threads and      *)
(* settles a promise per call on the caller (JS) thread.                   *)
(*                                                                         *)
(* The program state is kept in the VARIABLES below.  Every lambda of the  *)
(* source is a function from a state record to a state record, so that a   *)
(* task that scheduleOrRun runs inline (worker pointer == nullptr) is the  *)
(* same code as the task a worker thread runs later.  The collaborators    *)
(* whose code is not part of CommCoreModule.cpp (the query executor, the   *)
(* crypto module, the worker thread, the promise) are modelled from their  *)
(* documented contracts.                                                   *)
(***************************************************************************)
EXTENDS Integers, Sequences, FiniteSets, TLC

\* ------------------------------------------------------------------ bounds
MaxCalls == 2        \* facade calls per run, all operations (Spec)
MaxStoreCalls == 3   \* facade calls per run, message-store operations (SpecStore)
MaxCryptoCalls == 3  \* facade calls per run, crypto operations (SpecCrypto)
MaxBatchLen == 2     \* operations in one processMessageStoreOperations batch
MaxDraftCalls == 3   \* facade calls per run, draft operations (SpecDrafts)

\* ------------------------------------------------------------------ inputs
Keys == {"k1", "k2"}
Texts == {"", "a"}
MsgIds == {"m1"}
ThreadIds == {"t1"}
NewThreadIds == {"t2"}   \* the threads a rekey moves messages to
Absent == "absent"

NoError == ""
StoreError == "store error"
NotInitialized == "user has not been initialized"

REKEY_OPERATION == "rekey"
REMOVE_OPERATION == "remove"
REPLACE_OPERATION == "replace"
REMOVE_MSGS_FOR_THREADS_OPERATION == "remove_messages_for_threads"
BogusOperation == "bogus"

SupportedTypes ==
  {REKEY_OPERATION, REMOVE_OPERATION, REPLACE_OPERATION,
   REMOVE_MSGS_FOR_THREADS_OPERATION}

\* One entry of the operations array: type and payload (a, b).
\*   remove: a = message id;  remove_messages_for_threads: a = thread id;
\*   replace: a = message id, b = thread;  rekey: a = from, b = to.
OpUniverse ==
  {[type |-> REMOVE_OPERATION, a |-> m, b |-> "-"] : m \in MsgIds}
    \cup {[type |-> REMOVE_MSGS_FOR_THREADS_OPERATION, a |-> t, b |-> "-"]
            : t \in ThreadIds}
    \cup {[type |-> REPLACE_OPERATION, a |-> m, b |-> t]
            : m \in MsgIds, t \in ThreadIds}
    \cup {[type |-> REKEY_OPERATION, a |-> t, b |-> u]
            : t \in ThreadIds, u \in NewThreadIds}
    \cup {[type |-> BogusOperation, a |-> "-", b |-> "-"]}

SeqsUpTo(S, n) == UNION {[1..k -> S] : k \in 0..n}
Batches == SeqsUpTo(OpUniverse, MaxBatchLen)

\* A payload field that is missing or of the wrong type: the jsi accessor
\* reading it (asObject, asArray, asString) throws.
Malformed == "malformed"
MalformedOps == {[type |-> REMOVE_OPERATION, a |-> Malformed, b |-> "-"]}
IsMalformed(op) ==
  op.type \in SupportedTypes /\ (op.a = Malformed \/ op.b = Malformed)
MalformedBatches ==
  {operations \in SeqsUpTo(OpUniverse \cup MalformedOps, MaxBatchLen) :
     \E i \in 1..Len(operations) : IsMalformed(operations[i])}

\* ------------------------------------------------------------ state
VARIABLES
  databaseThread,  \* WorkerThread of the store: 0 is nullptr, n is the n-th made
  cryptoThread,    \* WorkerThread of the crypto module
  networkThread,   \* WorkerThread of the network client
  queue,           \* queue[w]: tasks scheduled on worker w, oldest first
  jsQueue,         \* callbacks handed to jsInvoker_->invokeAsync, oldest first
  promises,        \* promises[h]: the promise of the h-th facade call
  drafts,          \* store: draft rows, in row order
  messages,        \* store: thread of each message id, or Absent
  txOpen,          \* store: a transaction is open
  olm,             \* store: persisted account and sessions
  secureStore,     \* secure store entry of secureStoreAccountDataKey, 0 absent
  cryptoModule,    \* this->cryptoModule, account 0 is nullptr
  keysGenerated,   \* values generateRandomString has returned
  constructed,     \* crypto::CryptoModule objects constructed
  crashed          \* the process has died

vars ==
  <<databaseThread, cryptoThread, networkThread, queue, jsQueue, promises,
    drafts, messages, txOpen, olm, secureStore, cryptoModule,
    keysGenerated, constructed, crashed>>

Cur ==
  [databaseThread |-> databaseThread, cryptoThread |-> cryptoThread,
   networkThread |-> networkThread, queue |-> queue, jsQueue |-> jsQueue,
   promises |-> promises, drafts |-> drafts,
   messages |-> messages, txOpen |-> txOpen, olm |-> olm,
   secureStore |-> secureStore, cryptoModule |-> cryptoModule,
   keysGenerated |-> keysGenerated, constructed |-> constructed,
   crashed |-> crashed]

Becomes(s) ==
  /\ databaseThread' = s.databaseThread
  /\ cryptoThread' = s.cryptoThread
  /\ networkThread' = s.networkThread
  /\ queue' = s.queue
  /\ jsQueue' = s.jsQueue
  /\ promises' = s.promises
  /\ drafts' = s.drafts
  /\ messages' = s.messages
  /\ txOpen' = s.txOpen
  /\ olm' = s.olm
  /\ secureStore' = s.secureStore
  /\ cryptoModule' = s.cryptoModule
  /\ keysGenerated' = s.keysGenerated
  /\ constructed' = s.constructed
  /\ crashed' = s.crashed

Workers == {"database", "crypto"}

NoPersist == [account |-> 0, sessions |-> {}]
NoModule == [account |-> 0, key |-> 0, serial |-> 0]

\* A promise as createPromiseAsJSIValue hands it to the setup function, with
\* what was done on behalf of its call:
\*   resolves, rejects: calls of promise->resolve / promise->reject;
\*   settledOn: the thread that made the last of them, viaInvoker: inside a
\*   callback of jsInvoker_->invokeAsync;  calls: the collaborator calls made
\*   for the operation, in order;  escaped: an exception left one of its tasks;
\*   seen: the promises of the same operation that were resolved when the
\*   call was made (kept for initializeCryptoAccount).
NewPromise(op, seen) ==
  [op |-> op, seen |-> seen, resolves |-> 0, rejects |-> 0,
   value |-> <<>>, error |-> NoError, settledOn |-> "none",
   viaInvoker |-> TRUE, calls |-> <<>>, escaped |-> FALSE]

\* The failure choices of one step: which collaborator call raises.
\*   store: the index of the query executor call of a storage task that throws
\*          std::system_error (0: none);
\*   crypto: the index of the crypto module call of a crypto task that throws;
\*   persist: storeOlmPersistData throws;
\*   ub: what reading the destroyed messagesVector gives.
NoFailure == [store |-> 0, crypto |-> 0, persist |-> FALSE, ub |-> "intact"]

\* ---------------------------------------------------------------- helpers
\* A collaborator call made on thread `on` for promise h: ok is FALSE when it
\* raised; arg is the account a crypto or persist call is about, the keys and
\* text a draft call was given, else 0.
LogArg(s, h, on, api, ok, arg) ==
  [s EXCEPT !.promises[h].calls =
     Append(@, [on |-> on, api |-> api, ok |-> ok, arg |-> arg])]

Log(s, h, on, api, ok) == LogArg(s, h, on, api, ok, 0)

\* An exception leaves the task of promise h: nothing of the task after the
\* throwing call runs.
Escape(s, h) == [s EXCEPT !.promises[h].escaped = TRUE]

\* promise->resolve(value) / promise->reject(error), called on thread `on`.
Resolve(s, h, value, on, viaInvoker) ==
  [s EXCEPT !.promises[h].resolves = @ + 1,
            !.promises[h].value = value,
            !.promises[h].settledOn = on,
            !.promises[h].viaInvoker = viaInvoker]

Reject(s, h, error, on, viaInvoker) ==
  [s EXCEPT !.promises[h].rejects = @ + 1,
            !.promises[h].error = error,
            !.promises[h].settledOn = on,
            !.promises[h].viaInvoker = viaInvoker]

\* jsInvoker_->invokeAsync(callback): the callback runs later on the caller
\* thread, after the callbacks handed over before it.
invokeAsync(s, callback) == [s EXCEPT !.jsQueue = Append(@, callback)]

\* The callback every operation but getAllMessages hands over:
\*   if (error.size()) promise->reject(error); else promise->resolve(value);
SettleCallback(h, error, value) ==
  [kind |-> "settle", h |-> h, error |-> error, value |-> value]

\* ----------------------------------------------- query executor (store)
\* DatabaseManager::getQueryExecutor(): drafts are rows <<key, text>> with a
\* unique key, messages map an id to the thread of the message.
DraftIndex(d, key) ==
  IF \E i \in 1..Len(d) : d[i].key = key
  THEN CHOOSE i \in 1..Len(d) : d[i].key = key
  ELSE 0

QE_getDraft(d, key) ==
  IF DraftIndex(d, key) = 0 THEN "" ELSE d[DraftIndex(d, key)].text

QE_updateDraft(d, key, text) ==
  IF DraftIndex(d, key) = 0
  THEN Append(d, [key |-> key, text |-> text])
  ELSE [d EXCEPT ![DraftIndex(d, key)].text = text]

RemoveAt(d, i) == [j \in 1..(Len(d) - 1) |-> IF j < i THEN d[j] ELSE d[j + 1]]

\* moveDraft(oldKey, newKey): false when there is no draft of oldKey;
\* otherwise the draft of oldKey becomes the draft of newKey, replacing it.
QE_moveDraftResult(d, oldKey, newKey) == DraftIndex(d, oldKey) # 0

QE_moveDraft(d, oldKey, newKey) ==
  IF DraftIndex(d, oldKey) = 0 \/ oldKey = newKey
  THEN d
  ELSE LET text == QE_getDraft(d, oldKey)
           rest == RemoveAt(d, DraftIndex(d, oldKey))
       IN QE_updateDraft(rest, newKey, text)

NoMessages == [m \in MsgIds |-> Absent]

MsgIdOrder == CHOOSE q \in [1..Cardinality(MsgIds) -> MsgIds] :
                \A i, j \in DOMAIN q : i # j => q[i] # q[j]

RECURSIVE SelectPresent(_, _)
SelectPresent(msgs, i) ==
  IF i > Len(MsgIdOrder) THEN <<>>
  ELSE (IF msgs[MsgIdOrder[i]] = Absent THEN <<>>
        ELSE <<[id |-> MsgIdOrder[i], thread |-> msgs[MsgIdOrder[i]]]>>)
       \o SelectPresent(msgs, i + 1)

QE_getAllMessages(msgs) == SelectPresent(msgs, 1)

\* MessageStoreOperationBase::execute() of the four operation classes.
Execute(msgs, op) ==
  CASE op.type = REMOVE_OPERATION ->
         [m \in MsgIds |-> IF m = op.a THEN Absent ELSE msgs[m]]
    [] op.type = REMOVE_MSGS_FOR_THREADS_OPERATION ->
         [m \in MsgIds |-> IF msgs[m] = op.a THEN Absent ELSE msgs[m]]
    [] op.type = REPLACE_OPERATION ->
         [m \in MsgIds |-> IF m = op.a THEN op.b ELSE msgs[m]]
    [] op.type = REKEY_OPERATION ->
         [m \in MsgIds |-> IF msgs[m] = op.a THEN op.b ELSE msgs[m]]
    [] OTHER -> msgs

\* ------------------------------------------------------- scheduleOrRun
RECURSIVE RunTask(_, _, _, _)

ThreadOf(s, worker) ==
  IF worker = "database" THEN s.databaseThread ELSE s.cryptoThread

\* thread->scheduleTask(task): the worker runs its tasks one at a time, in the
\* order they were scheduled.
scheduleTask(s, worker, task) ==
  [s EXCEPT !.queue[worker] = Append(@, task)]

\* Mutant: the task is run at once whether or not the worker exists.
scheduleOrRun_AlwaysRuns(s, worker, task, c, on) == RunTask(s, task, c, on)

\* scheduleOrRun(thread, task), called on thread `on`; c are the failure
\* choices of the task when it runs inline.
scheduleOrRun(s, worker, task, c, on) ==
  IF ThreadOf(s, worker) # 0
  THEN scheduleTask(s, worker, task)
  ELSE RunTask(s, task, c, on)

\* ------------------------------------------------------------ draft jobs
StoreCall(c, i) == c.store # i
ErrorOf(ok) == IF ok THEN NoError ELSE StoreError

\* Mutant: the job rejects the promise itself when the store call fails.
GetDraftJob_RejectsInTask(s, t, c, on) ==
  LET ok == StoreCall(c, 1)
      s1 == LogArg(s, t.h, on, "getDraft", ok, <<t.key>>)
  IN IF ok
     THEN invokeAsync(s1, SettleCallback(t.h, NoError,
                                         QE_getDraft(s.drafts, t.key)))
     ELSE Reject(s1, t.h, StoreError, on, FALSE)

GetDraftJob(s, t, c, on) ==
  LET ok == StoreCall(c, 1)
      draftStr == IF ok THEN QE_getDraft(s.drafts, t.key) ELSE ""
  IN invokeAsync(LogArg(s, t.h, on, "getDraft", ok, <<t.key>>),
                 SettleCallback(t.h, ErrorOf(ok), draftStr))

UpdateDraftJob(s, t, c, on) ==
  LET ok == StoreCall(c, 1)
      s1 == LogArg(s, t.h, on, "updateDraft", ok, <<t.key, t.text>>)
      s2 == IF ok
            THEN [s1 EXCEPT !.drafts = QE_updateDraft(@, t.key, t.text)]
            ELSE s1
  IN invokeAsync(s2, SettleCallback(t.h, ErrorOf(ok), TRUE))

MoveDraftJob(s, t, c, on) ==
  LET ok == StoreCall(c, 1)
      s1 == LogArg(s, t.h, on, "moveDraft", ok, <<t.key, t.text>>)
      result == IF ok THEN QE_moveDraftResult(s.drafts, t.key, t.text)
                ELSE FALSE
      s2 == IF ok
            THEN [s1 EXCEPT !.drafts = QE_moveDraft(@, t.key, t.text)]
            ELSE s1
  IN invokeAsync(s2, SettleCallback(t.h, ErrorOf(ok), result))

\* count_if(draftsVector, !draft.text.empty())
CountNonEmpty(d) == Cardinality({i \in 1..Len(d) : d[i].text # ""})

\* Mutant: the array is sized by the number of drafts, empty ones included.
GetAllDraftsJob_CountsAll(s, t, c, on) ==
  LET ok == StoreCall(c, 1)
      draftsVector == IF ok THEN s.drafts ELSE <<>>
      numDrafts == Len(draftsVector)
  IN invokeAsync(Log(s, t.h, on, "getAllDrafts", ok),
                 [kind |-> "drafts", h |-> t.h, error |-> ErrorOf(ok),
                  draftsVector |-> draftsVector, numDrafts |-> numDrafts])

GetAllDraftsJob(s, t, c, on) ==
  LET ok == StoreCall(c, 1)
      draftsVector == IF ok THEN s.drafts ELSE <<>>
      numDrafts == CountNonEmpty(draftsVector)
  IN invokeAsync(Log(s, t.h, on, "getAllDrafts", ok),
                 [kind |-> "drafts", h |-> t.h, error |-> ErrorOf(ok),
                  draftsVector |-> draftsVector, numDrafts |-> numDrafts])

RemoveAllDraftsJob(s, t, c, on) ==
  LET ok == StoreCall(c, 1)
      s1 == Log(s, t.h, on, "removeAllDrafts", ok)
      s2 == IF ok THEN [s1 EXCEPT !.drafts = <<>>] ELSE s1
  IN invokeAsync(s2, SettleCallback(t.h, ErrorOf(ok), "undefined"))

\* ---------------------------------------------------------- message jobs
RemoveAllMessagesJob(s, t, c, on) ==
  LET ok == StoreCall(c, 1)
      s1 == Log(s, t.h, on, "removeAllMessages", ok)
      s2 == IF ok THEN [s1 EXCEPT !.messages = NoMessages] ELSE s1
  IN invokeAsync(s2, SettleCallback(t.h, ErrorOf(ok), "undefined"))

\* The callback holds messagesVector by reference (&messagesVector) and
\* numMessages by value: `was` is what the vector held when the job ended.
GetAllMessagesJob(s, t, c, on) ==
  LET ok == StoreCall(c, 1)
      messagesVector == IF ok THEN QE_getAllMessages(s.messages) ELSE <<>>
  IN invokeAsync(Log(s, t.h, on, "getAllMessages", ok),
                 [kind |-> "messages", h |-> t.h, error |-> ErrorOf(ok),
                  was |-> messagesVector,
                  numMessages |-> Len(messagesVector)])

\* Mutant: the loop runs over the operations from the last to the first.
RECURSIVE ExecuteAll_Reversed(_, _, _)
ExecuteAll_Reversed(msgs, ops, n) ==
  IF n = 0 THEN msgs ELSE ExecuteAll_Reversed(Execute(msgs, ops[n]), ops, n - 1)

\* for (const auto &operation : messageStoreOps) operation->execute();
\* stopped after n operations.
RECURSIVE ExecuteAll(_, _, _)
ExecuteAll(msgs, ops, n) ==
  IF n = 0 THEN msgs ELSE Execute(ExecuteAll(msgs, ops, n - 1), ops[n])

RECURSIVE LogExecutes(_, _, _, _, _)
LogExecutes(s, h, on, n, failed) ==
  IF n = 0 THEN s
  ELSE Log(LogExecutes(s, h, on, n - 1, failed), h, on, "execute", n # failed)

\* The job of processMessageStoreOperations: store call 1 is
\* beginTransaction, call i + 1 is messageStoreOps[i]->execute(), call
\* Len + 2 is commitTransaction; the call that throws ends the try block.
BatchJob(s, t, c, on) ==
  LET n == Len(t.ops)
      k == IF c.store > n + 2 THEN 0 ELSE c.store
      began == k # 1
      executed == IF k = 0 \/ k = n + 2 THEN n
                  ELSE IF k = 1 THEN 0 ELSE k - 2
      attempted == IF k = 0 \/ k = n + 2 THEN n
                   ELSE IF k = 1 THEN 0 ELSE k - 1
      committed == k = 0
      s1 == Log(s, t.h, on, "beginTransaction", began)
      s2 == LogExecutes(s1, t.h, on, attempted,
                        IF attempted > executed THEN attempted ELSE 0)
      s3 == IF k = 0 \/ k = n + 2
            THEN Log(s2, t.h, on, "commitTransaction", committed)
            ELSE s2
      s4 == [s3 EXCEPT
               !.messages = ExecuteAll(@, t.ops, executed),
               !.txOpen = IF ~began THEN @ ELSE ~committed]
  IN invokeAsync(s4, SettleCallback(t.h, ErrorOf(k = 0), "undefined"))

\* ----------------------------------------------------- crypto account
\* crypto::Persist::isEmpty()
isEmpty(persist) == persist.account = 0

\* crypto::CryptoModule(userId, secretKey, persist): the serial-th module
\* made; a module made from an empty persist holds a new account, numbered by
\* the module, one made from a persisted account holds that account.
NewCryptoModule(serial, secretKey, persist) ==
  [account |-> IF isEmpty(persist) THEN serial ELSE persist.account,
   key |-> secretKey, serial |-> serial]

\* cryptoModule->storeAsB64(secretKey)
storeAsB64(module, secretKey) == [account |-> module.account, sessions |-> {}]

\* cryptoModule->restoreFromB64(secretKey, persist)
restoreFromB64(module, secretKey, persist) ==
  [module EXCEPT !.account = persist.account]

\* storeOlmPersistData(persist)
QE_storeOlmPersistData(stored, persist) ==
  [account |-> persist.account,
   sessions |-> stored.sessions \cup persist.sessions]

\* Mutant: the completion of the persist task does not look at its error.
PersistJob_IgnoresError(s, t, c, on) ==
  LET ok == ~c.persist
      s1 == LogArg(s, t.h, on, "storeOlmPersistData", ok,
                   t.newPersist.account)
      s2 == IF ok
            THEN [s1 EXCEPT !.olm = QE_storeOlmPersistData(@, t.newPersist)]
            ELSE s1
  IN invokeAsync(s2, SettleCallback(t.h, NoError, "undefined"))

\* The innermost task of initializeCryptoAccount (lines 431-446).
PersistJob(s, t, c, on) ==
  LET ok == ~c.persist
      s1 == LogArg(s, t.h, on, "storeOlmPersistData", ok,
                   t.newPersist.account)
      s2 == IF ok
            THEN [s1 EXCEPT !.olm = QE_storeOlmPersistData(@, t.newPersist)]
            ELSE s1
  IN invokeAsync(s2, SettleCallback(t.h, ErrorOf(ok), "undefined"))

\* Mutant: the crypto task stores the new persist itself instead of handing
\* the store call to the database worker.
ConstructJob_PersistsItself(s, t, c, on) ==
  LET serial == s.constructed + 1
      made == NewCryptoModule(serial, t.secretKey, t.persist)
      s1 == LogArg(s, t.h, on, "CryptoModule", c.crypto # 1, made.account)
      s2 == [s1 EXCEPT !.cryptoModule = made, !.constructed = serial]
      error == NoError
  IN IF c.crypto = 1 THEN Escape(s1, t.h)
     ELSE IF isEmpty(t.persist)
     THEN LET s3 == LogArg(s2, t.h, on, "storeAsB64", c.crypto # 2,
                           made.account)
              newPersist == storeAsB64(s2.cryptoModule, t.secretKey)
          IN IF c.crypto = 2 THEN Escape(s3, t.h)
             ELSE PersistJob(
                    s3,
                    [kind |-> "persist", h |-> t.h, newPersist |-> newPersist],
                    c, on)
     ELSE LET s3 == LogArg(s2, t.h, on, "restoreFromB64", c.crypto # 2,
                           t.persist.account)
              s4 == [s3 EXCEPT !.cryptoModule =
                       restoreFromB64(@, t.secretKey, t.persist)]
          IN IF c.crypto = 2 THEN Escape(s3, t.h)
             ELSE invokeAsync(s4, SettleCallback(t.h, error, "undefined"))

\* Mutant: the crypto task serializes and stores the identity on the restore
\* path too.
ConstructJob_AlwaysPersists(s, t, c, on) ==
  LET serial == s.constructed + 1
      made == NewCryptoModule(serial, t.secretKey, t.persist)
      s1 == LogArg(s, t.h, on, "CryptoModule", c.crypto # 1, made.account)
      s2 == [s1 EXCEPT !.cryptoModule = made, !.constructed = serial]
      s3 == IF isEmpty(t.persist) THEN s2
            ELSE LogArg([s2 EXCEPT !.cryptoModule =
                           restoreFromB64(@, t.secretKey, t.persist)],
                        t.h, on, "restoreFromB64", TRUE, t.persist.account)
      s4 == LogArg(s3, t.h, on, "storeAsB64", c.crypto # 2, made.account)
  IN IF c.crypto = 1 THEN Escape(s1, t.h)
     ELSE IF c.crypto = 2 THEN Escape(s4, t.h)
     ELSE scheduleOrRun(
            s4, "database",
            [kind |-> "persist", h |-> t.h,
             newPersist |-> storeAsB64(s3.cryptoModule, t.secretKey)],
            c, on)

\* The crypto task of initializeCryptoAccount (lines 424-459).  Crypto call 1
\* is the constructor, call 2 is storeAsB64 or restoreFromB64; no handler
\* surrounds them.  The `error` the completion reads is the task's own, empty
\* string; the error of the load is not read.
ConstructJob(s, t, c, on) ==
  LET serial == s.constructed + 1
      made == NewCryptoModule(serial, t.secretKey, t.persist)
      s1 == LogArg(s, t.h, on, "CryptoModule", c.crypto # 1, made.account)
      s2 == [s1 EXCEPT !.cryptoModule = made, !.constructed = serial]
      error == NoError
  IN IF c.crypto = 1 THEN Escape(s1, t.h)
     ELSE IF isEmpty(t.persist)
     THEN LET s3 == LogArg(s2, t.h, on, "storeAsB64", c.crypto # 2,
                           made.account)
              newPersist == storeAsB64(s2.cryptoModule, t.secretKey)
          IN IF c.crypto = 2 THEN Escape(s3, t.h)
             ELSE scheduleOrRun(
                    s3, "database",
                    [kind |-> "persist", h |-> t.h, newPersist |-> newPersist],
                    c, on)
     ELSE LET s3 == LogArg(s2, t.h, on, "restoreFromB64", c.crypto # 2,
                           t.persist.account)
              s4 == [s3 EXCEPT !.cryptoModule =
                       restoreFromB64(@, t.secretKey, t.persist)]
          IN IF c.crypto = 2 THEN Escape(s3, t.h)
             ELSE invokeAsync(s4, SettleCallback(t.h, error, "undefined"))

\* Mutant: the storage task hands an empty persist to the crypto task,
\* whatever it loaded.
LoadJob_DropsLoaded(s, t, c, on) ==
  LET ok1 == StoreCall(c, 1)
      hasValue == ok1 /\ s.olm.account # 0
      ok2 == StoreCall(c, 2)
      s1 == LogArg(s, t.h, on, "getOlmPersistAccountData", ok1,
                   IF hasValue THEN s.olm.account ELSE 0)
      s2 == IF hasValue
            THEN Log(s1, t.h, on, "getOlmPersistSessionsData", ok2)
            ELSE s1
  IN scheduleOrRun(
       s2, "crypto",
       [kind |-> "construct", h |-> t.h, secretKey |-> t.secretKey,
        persist |-> NoPersist],
       c, on)

\* Mutant: when the store holds no account, the storage task hands over the
\* account of the module in memory as if it had been loaded.
LoadJob_ReusesModule(s, t, c, on) ==
  LET ok1 == StoreCall(c, 1)
      hasValue == ok1 /\ s.olm.account # 0
      ok2 == StoreCall(c, 2)
      s1 == LogArg(s, t.h, on, "getOlmPersistAccountData", ok1,
                   IF hasValue THEN s.olm.account ELSE 0)
      s2 == IF hasValue
            THEN Log(s1, t.h, on, "getOlmPersistSessionsData", ok2)
            ELSE s1
      persist == [account |-> IF hasValue THEN s.olm.account
                              ELSE s.cryptoModule.account,
                  sessions |-> IF hasValue /\ ok2 THEN s.olm.sessions ELSE {}]
  IN scheduleOrRun(
       s2, "crypto",
       [kind |-> "construct", h |-> t.h, secretKey |-> t.secretKey,
        persist |-> persist],
       c, on)

\* The storage task of initializeCryptoAccount (lines 399-460).  Store call 1
\* is getOlmPersistAccountData, call 2 (made when there is an account) is
\* getOlmPersistSessionsData.  The error caught is kept in a local the crypto
\* task never reads.
LoadJob(s, t, c, on) ==
  LET ok1 == StoreCall(c, 1)
      hasValue == ok1 /\ s.olm.account # 0
      ok2 == StoreCall(c, 2)
      s1 == LogArg(s, t.h, on, "getOlmPersistAccountData", ok1,
                   IF hasValue THEN s.olm.account ELSE 0)
      s2 == IF hasValue
            THEN Log(s1, t.h, on, "getOlmPersistSessionsData", ok2)
            ELSE s1
      persist == [account |-> IF hasValue THEN s.olm.account ELSE 0,
                  sessions |-> IF hasValue /\ ok2 THEN s.olm.sessions ELSE {}]
      error == ErrorOf(ok1 /\ (hasValue => ok2))
  IN scheduleOrRun(
       s2, "crypto",
       [kind |-> "construct", h |-> t.h, secretKey |-> t.secretKey,
        persist |-> persist],
       c, on)

\* Mutant: the task exports the keys without testing cryptoModule.
KeysJob_NoCheck(s, t, c, on) ==
  LET s1 == LogArg(s, t.h, on, t.api, c.crypto # 1, s.cryptoModule.account)
      result == <<t.api, s.cryptoModule.account, s.cryptoModule.serial>>
  IN IF c.crypto = 1 THEN Escape(s1, t.h)
     ELSE invokeAsync(s1, SettleCallback(t.h, NoError, result))

\* The tasks of getUserPublicKey and getUserOneTimeKeys: crypto call 1 is
\* getIdentityKeys / getOneTimeKeys.
KeysJob(s, t, c, on) ==
  IF s.cryptoModule.account = 0
  THEN invokeAsync(s, SettleCallback(t.h, NotInitialized, ""))
  ELSE LET s1 == LogArg(s, t.h, on, t.api, c.crypto # 1,
                        s.cryptoModule.account)
           result == <<t.api, s.cryptoModule.account, s.cryptoModule.serial>>
       IN IF c.crypto = 1 THEN Escape(s1, t.h)
          ELSE invokeAsync(s1, SettleCallback(t.h, NoError, result))

RunTask(s, t, c, on) ==
  CASE t.kind = "getDraft" -> GetDraftJob(s, t, c, on)
    [] t.kind = "updateDraft" -> UpdateDraftJob(s, t, c, on)
    [] t.kind = "moveDraft" -> MoveDraftJob(s, t, c, on)
    [] t.kind = "getAllDrafts" -> GetAllDraftsJob(s, t, c, on)
    [] t.kind = "removeAllDrafts" -> RemoveAllDraftsJob(s, t, c, on)
    [] t.kind = "removeAllMessages" -> RemoveAllMessagesJob(s, t, c, on)
    [] t.kind = "getAllMessages" -> GetAllMessagesJob(s, t, c, on)
    [] t.kind = "batch" -> BatchJob(s, t, c, on)
    [] t.kind = "load" -> LoadJob(s, t, c, on)
    [] t.kind = "construct" -> ConstructJob(s, t, c, on)
    [] t.kind = "persist" -> PersistJob(s, t, c, on)
    [] t.kind = "keys" -> KeysJob(s, t, c, on)

\* ------------------------------------------------- completion callbacks
\* jsi::Array(rt, n) filled by setValueAtIndex(writeIndex++) with the drafts
\* whose text is not empty.
RECURSIVE NonEmptyDrafts(_, _)
NonEmptyDrafts(d, i) ==
  IF i > Len(d) THEN <<>>
  ELSE (IF d[i].text = "" THEN <<>> ELSE <<d[i]>>) \o NonEmptyDrafts(d, i + 1)

JsiDrafts(draftsVector, numDrafts) ==
  LET filled == NonEmptyDrafts(draftsVector, 1)
  IN [i \in 1..numDrafts |->
        IF i <= Len(filled) THEN filled[i] ELSE "undefined"]

\* What the loop over the destroyed messagesVector can give.
UBOutcomes == {"intact", "garbage", "crash"}

\* A callback run by the caller thread.
RunCallback(s, cb, ub) ==
  IF cb.error # NoError
  THEN Reject(s, cb.h, cb.error, "js", TRUE)
  ELSE CASE cb.kind = "settle" -> Resolve(s, cb.h, cb.value, "js", TRUE)
         [] cb.kind = "drafts" ->
              Resolve(s, cb.h, JsiDrafts(cb.draftsVector, cb.numDrafts),
                      "js", TRUE)
         [] cb.kind = "messages" ->
              IF ub = "crash" THEN [s EXCEPT !.crashed = TRUE]
              ELSE Resolve(s, cb.h,
                           IF ub = "intact" THEN cb.was ELSE <<"garbage">>,
                           "js", TRUE)

\* ------------------------------------------------------ failure choices
SimpleStoreKinds ==
  {"getDraft", "updateDraft", "moveDraft", "getAllDrafts", "removeAllDrafts",
   "removeAllMessages", "getAllMessages"}

\* The kinds of task that run in one step when t runs in s: t, and the tasks
\* scheduleOrRun runs inline under it.
Reach(s, t) ==
  {t.kind}
    \cup (IF t.kind = "load" /\ s.cryptoThread = 0 THEN {"construct"} ELSE {})
    \cup (IF /\ t.kind \in {"load", "construct"}
             /\ t.kind = "load" => s.cryptoThread = 0
             /\ s.databaseThread = 0
          THEN {"persist"} ELSE {})

Choices(s, t) ==
  [store : IF t.kind = "batch" THEN 0..(Len(t.ops) + 2)
           ELSE IF t.kind = "load" THEN 0..2
           ELSE IF t.kind \in SimpleStoreKinds THEN 0..1 ELSE {0},
   crypto : IF "construct" \in Reach(s, t) THEN 0..2
            ELSE IF t.kind = "keys" THEN 0..1 ELSE {0},
   persist : IF "persist" \in Reach(s, t) THEN BOOLEAN ELSE {FALSE},
   ub : {"intact"}]

\* The choices of a facade call: those of its task when the task runs inline.
FacadeChoices(s, worker, t) ==
  IF ThreadOf(s, worker) = 0 THEN Choices(s, t) ELSE {NoFailure}

\* ------------------------------------------------------------- facade
\* createPromiseAsJSIValue(rt, setup): the promise of the next handle.
NextHandle(s) == Len(s.promises) + 1
createPromise(s, op) ==
  [s EXCEPT !.promises =
     Append(@, NewPromise(op,
                          {i \in 1..Len(s.promises) :
                             /\ op = "initializeCryptoAccount"
                             /\ s.promises[i].op = op
                             /\ s.promises[i].resolves > 0}))]

\* Mutant: the read runs at once on the calling thread instead of waiting its
\* turn on the database worker.
getDraft_RunsInline(s, key, c) ==
  RunTask(createPromise(s, "getDraft"),
          [kind |-> "getDraft", h |-> NextHandle(s), key |-> key],
          c, "js")

getDraft(s, key, c) ==
  scheduleOrRun(createPromise(s, "getDraft"), "database",
                [kind |-> "getDraft", h |-> NextHandle(s), key |-> key],
                c, "js")

updateDraft(s, key, text, c) ==
  scheduleOrRun(createPromise(s, "updateDraft"), "database",
                [kind |-> "updateDraft", h |-> NextHandle(s), key |-> key,
                 text |-> text],
                c, "js")

moveDraft(s, oldKey, newKey, c) ==
  scheduleOrRun(createPromise(s, "moveDraft"), "database",
                [kind |-> "moveDraft", h |-> NextHandle(s), key |-> oldKey,
                 text |-> newKey],
                c, "js")

getAllDrafts(s, c) ==
  scheduleOrRun(createPromise(s, "getAllDrafts"), "database",
                [kind |-> "getAllDrafts", h |-> NextHandle(s)], c, "js")

removeAllDrafts(s, c) ==
  scheduleOrRun(createPromise(s, "removeAllDrafts"), "database",
                [kind |-> "removeAllDrafts", h |-> NextHandle(s)], c, "js")

removeAllMessages(s, c) ==
  scheduleOrRun(createPromise(s, "removeAllMessages"), "database",
                [kind |-> "removeAllMessages", h |-> NextHandle(s)], c, "js")

getAllMessages(s, c) ==
  scheduleOrRun(createPromise(s, "getAllMessages"), "database",
                [kind |-> "getAllMessages", h |-> NextHandle(s)], c, "js")

\* Mutant: only the type of the first entry is looked at.
FirstUnsupported_HeadOnly(operations) ==
  IF Len(operations) > 0 /\ operations[1].type \notin SupportedTypes
  THEN 1
  ELSE 0

\* The parsing loop of processMessageStoreOperations (lines 250-358): the
\* index of the first entry whose type is none of the four, or 0.
FirstUnsupported(operations) ==
  IF \E i \in 1..Len(operations) : operations[i].type \notin SupportedTypes
  THEN CHOOSE i \in 1..Len(operations) :
         /\ operations[i].type \notin SupportedTypes
         /\ \A j \in 1..(i - 1) : operations[j].type \in SupportedTypes
  ELSE 0

UnsupportedOperation == "unsupported operation: bogus"

\* The index of the first entry whose payload makes a jsi accessor of the
\* parsing loop throw, or 0.
FirstMalformed(operations) ==
  IF \E i \in 1..Len(operations) : IsMalformed(operations[i])
  THEN CHOOSE i \in 1..Len(operations) :
         /\ IsMalformed(operations[i])
         /\ \A j \in 1..(i - 1) : ~IsMalformed(operations[j])
  ELSE 0

\* Mutant: the transaction is begun on the calling thread when the call is
\* made, and the task queued for the rest.
processMessageStoreOperations_BeginsAtCall(s, operations, c) ==
  IF /\ FirstMalformed(operations) # 0
     /\ FirstUnsupported(operations) \in
          {0} \cup (FirstMalformed(operations)..Len(operations))
  THEN s
  ELSE IF FirstUnsupported(operations) # 0
  THEN invokeAsync(createPromise(s, "processMessageStoreOperations"),
                   SettleCallback(NextHandle(s), UnsupportedOperation,
                                  "undefined"))
  ELSE scheduleOrRun(
         [Log(createPromise(s, "processMessageStoreOperations"),
              NextHandle(s), "js", "beginTransaction", TRUE)
            EXCEPT !.txOpen = TRUE],
         "database",
         [kind |-> "batch", h |-> NextHandle(s), ops |-> operations],
         c, "js")

\* The loop ends at the first entry that is unsupported or malformed.  At a
\* malformed entry the exception of the accessor leaves
\* processMessageStoreOperations: no promise is made, nothing is scheduled.
processMessageStoreOperations(s, operations, c) ==
  IF /\ FirstMalformed(operations) # 0
     /\ FirstUnsupported(operations) \in
          {0} \cup (FirstMalformed(operations)..Len(operations))
  THEN s
  ELSE IF FirstUnsupported(operations) # 0
  THEN invokeAsync(createPromise(s, "processMessageStoreOperations"),
                   SettleCallback(NextHandle(s), UnsupportedOperation,
                                  "undefined"))
  ELSE scheduleOrRun(createPromise(s, "processMessageStoreOperations"),
                     "database",
                     [kind |-> "batch", h |-> NextHandle(s),
                      ops |-> operations],
                     c, "js")

\* Mutant: a key is generated and stored at every call.
initializeCryptoAccount_AlwaysGenerates(s, c) ==
  LET h == NextHandle(s)
      generated == s.keysGenerated + 1
      s1 == Log(createPromise(s, "initializeCryptoAccount"), h, "js",
                "secureStore.get", TRUE)
      s2 == Log([s1 EXCEPT !.keysGenerated = generated,
                           !.secureStore = generated],
                h, "js", "secureStore.set", TRUE)
  IN scheduleOrRun(s2, "database",
                   [kind |-> "load", h |-> h, secretKey |-> generated],
                   c, "js")

\* initializeCryptoAccount: the secure store is read, and written when it
\* holds no key, on the calling thread before the promise is made.
initializeCryptoAccount(s, c) ==
  LET h == NextHandle(s)
      hasValue == s.secureStore # 0
      generated == s.keysGenerated + 1
      storedSecretKey == IF hasValue THEN s.secureStore ELSE generated
      s1 == Log(createPromise(s, "initializeCryptoAccount"), h, "js",
                "secureStore.get", TRUE)
      s2 == IF hasValue THEN s1
            ELSE Log([s1 EXCEPT !.keysGenerated = generated,
                                !.secureStore = generated],
                     h, "js", "secureStore.set", TRUE)
  IN scheduleOrRun(s2, "database",
                   [kind |-> "load", h |-> h, secretKey |-> storedSecretKey],
                   c, "js")

\* Mutant: the key export is scheduled on the database worker.
getUserPublicKey_OnDatabase(s, c) ==
  scheduleOrRun(createPromise(s, "getUserPublicKey"), "database",
                [kind |-> "keys", h |-> NextHandle(s),
                 api |-> "getIdentityKeys"],
                c, "js")

getUserPublicKey(s, c) ==
  scheduleOrRun(createPromise(s, "getUserPublicKey"), "crypto",
                [kind |-> "keys", h |-> NextHandle(s),
                 api |-> "getIdentityKeys"],
                c, "js")

getUserOneTimeKeys(s, c) ==
  scheduleOrRun(createPromise(s, "getUserOneTimeKeys"), "crypto",
                [kind |-> "keys", h |-> NextHandle(s),
                 api |-> "getOneTimeKeys"],
                c, "js")

\* Mutant: a worker is made for each subsystem whether or not one exists.
initializeThreads_AlwaysMakes(s) ==
  [s EXCEPT !.databaseThread = @ + 1,
            !.cryptoThread = @ + 1,
            !.networkThread = @ + 1,
            !.queue = [w \in Workers |-> <<>>]]

\* initializeThreads() (lines 537-547): each worker is made only when its
\* pointer is nullptr.
initializeThreads(s) ==
  [s EXCEPT !.databaseThread = IF @ = 0 THEN 1 ELSE @,
            !.cryptoThread = IF @ = 0 THEN 1 ELSE @,
            !.networkThread = IF @ = 0 THEN 1 ELSE @]

\* -------------------------------------------------------------- actions
\* The state with each worker pointer set to n, nothing stored and no call
\* made.
StartState(n) ==
  /\ databaseThread = n
  /\ cryptoThread = n
  /\ networkThread = n
  /\ queue = [w \in Workers |-> <<>>]
  /\ jsQueue = <<>>
  /\ promises = <<>>
  /\ drafts = <<>>
  /\ messages = NoMessages
  /\ txOpen = FALSE
  /\ olm = NoPersist
  /\ secureStore = 0
  /\ cryptoModule = NoModule
  /\ keysGenerated = 0
  /\ constructed = 0
  /\ crashed = FALSE

\* The state after the constructor (lines 549-556): the member initialisers
\* set the workers to nullptr and initializeThreads() makes the three.
Init == StartState(1)

\* The degenerate mode scheduleOrRun provides for: no worker exists and
\* every task runs inline on the calling thread.
InitNoThreads == StartState(0)

InitAnyMode == Init \/ InitNoThreads

MayCall(max) == ~crashed /\ Len(promises) < max

Pseudo(kind) == [kind |-> kind]

CallGetDraft(max) ==
  /\ MayCall(max)
  /\ \E key \in Keys :
       \E c \in FacadeChoices(Cur, "database", Pseudo("getDraft")) :
         Becomes(getDraft(Cur, key, c))

CallUpdateDraft(max) ==
  /\ MayCall(max)
  /\ \E key \in Keys, text \in Texts :
       \E c \in FacadeChoices(Cur, "database", Pseudo("updateDraft")) :
         Becomes(updateDraft(Cur, key, text, c))

CallMoveDraft(max) ==
  /\ MayCall(max)
  /\ \E oldKey \in Keys, newKey \in Keys :
       \E c \in FacadeChoices(Cur, "database", Pseudo("moveDraft")) :
         Becomes(moveDraft(Cur, oldKey, newKey, c))

CallGetAllDrafts(max) ==
  /\ MayCall(max)
  /\ \E c \in FacadeChoices(Cur, "database", Pseudo("getAllDrafts")) :
       Becomes(getAllDrafts(Cur, c))

CallRemoveAllDrafts(max) ==
  /\ MayCall(max)
  /\ \E c \in FacadeChoices(Cur, "database", Pseudo("removeAllDrafts")) :
       Becomes(removeAllDrafts(Cur, c))

CallRemoveAllMessages(max) ==
  /\ MayCall(max)
  /\ \E c \in FacadeChoices(Cur, "database", Pseudo("removeAllMessages")) :
       Becomes(removeAllMessages(Cur, c))

CallGetAllMessages(max) ==
  /\ MayCall(max)
  /\ \E c \in FacadeChoices(Cur, "database", Pseudo("getAllMessages")) :
       Becomes(getAllMessages(Cur, c))

CallProcessMessageStoreOperations(max) ==
  /\ MayCall(max)
  /\ \E operations \in Batches \cup MalformedBatches :
       \E c \in FacadeChoices(Cur, "database",
                              [kind |-> "batch", ops |-> operations]) :
         Becomes(processMessageStoreOperations(Cur, operations, c))

CallInitializeCryptoAccount(max) ==
  /\ MayCall(max)
  /\ \E c \in FacadeChoices(Cur, "database", Pseudo("load")) :
       Becomes(initializeCryptoAccount(Cur, c))

CallGetUserPublicKey(max) ==
  /\ MayCall(max)
  /\ \E c \in FacadeChoices(Cur, "crypto", Pseudo("keys")) :
       Becomes(getUserPublicKey(Cur, c))

CallGetUserOneTimeKeys(max) ==
  /\ MayCall(max)
  /\ \E c \in FacadeChoices(Cur, "crypto", Pseudo("keys")) :
       Becomes(getUserOneTimeKeys(Cur, c))

CallInitializeThreads ==
  /\ ~crashed
  /\ Becomes(initializeThreads(Cur))

\* The worker thread w runs the oldest task of its queue.
WorkerRuns(w) ==
  /\ ~crashed
  /\ queue[w] # <<>>
  /\ LET t == Head(queue[w])
         s == [Cur EXCEPT !.queue[w] = Tail(@)]
     IN \E c \in Choices(s, t) : Becomes(RunTask(s, t, c, w))

DatabaseWorker == WorkerRuns("database")
CryptoWorker == WorkerRuns("crypto")

\* The caller thread runs the oldest callback handed to jsInvoker_.
CallerRunsCallback ==
  /\ ~crashed
  /\ jsQueue # <<>>
  /\ LET cb == Head(jsQueue)
         s == [Cur EXCEPT !.jsQueue = Tail(@)]
     IN \E ub \in (IF cb.kind = "messages" /\ cb.error = NoError
                   THEN UBOutcomes ELSE {"intact"}) :
          Becomes(RunCallback(s, cb, ub))

Next ==
  \/ CallGetDraft(MaxCalls)
  \/ CallUpdateDraft(MaxCalls)
  \/ CallMoveDraft(MaxCalls)
  \/ CallGetAllDrafts(MaxCalls)
  \/ CallRemoveAllDrafts(MaxCalls)
  \/ CallRemoveAllMessages(MaxCalls)
  \/ CallGetAllMessages(MaxCalls)
  \/ CallProcessMessageStoreOperations(MaxCalls)
  \/ CallInitializeCryptoAccount(MaxCalls)
  \/ CallGetUserPublicKey(MaxCalls)
  \/ CallGetUserOneTimeKeys(MaxCalls)
  \/ CallInitializeThreads
  \/ DatabaseWorker
  \/ CryptoWorker
  \/ CallerRunsCallback

Spec == Init /\ [][Next]_vars
SpecAnyMode == InitAnyMode /\ [][Next]_vars

\* The message store operations alone, with more calls.
NextStore ==
  \/ CallRemoveAllMessages(MaxStoreCalls)
  \/ CallGetAllMessages(MaxStoreCalls)
  \/ CallProcessMessageStoreOperations(MaxStoreCalls)
  \/ CallInitializeThreads
  \/ DatabaseWorker
  \/ CallerRunsCallback

SpecStore == Init /\ [][NextStore]_vars
SpecStoreAnyMode == InitAnyMode /\ [][NextStore]_vars

\* The draft operations alone, with more calls.
NextDrafts ==
  \/ CallGetDraft(MaxDraftCalls)
  \/ CallUpdateDraft(MaxDraftCalls)
  \/ CallMoveDraft(MaxDraftCalls)
  \/ CallGetAllDrafts(MaxDraftCalls)
  \/ CallRemoveAllDrafts(MaxDraftCalls)
  \/ CallInitializeThreads
  \/ DatabaseWorker
  \/ CallerRunsCallback

SpecDrafts == Init /\ [][NextDrafts]_vars
SpecDraftsAnyMode == InitAnyMode /\ [][NextDrafts]_vars

\* The crypto operations alone, with more calls.
NextCrypto ==
  \/ CallInitializeCryptoAccount(MaxCryptoCalls)
  \/ CallGetUserPublicKey(MaxCryptoCalls)
  \/ CallGetUserOneTimeKeys(MaxCryptoCalls)
  \/ CallInitializeThreads
  \/ DatabaseWorker
  \/ CryptoWorker
  \/ CallerRunsCallback

SpecCrypto == Init /\ [][NextCrypto]_vars

\* The process ends, with or without work in flight, and is started again:
\* the tasks and callbacks not yet run and the crypto module in memory are
\* gone, the persistent store and the secure store keep what they hold, and the
\* constructor makes the workers.  The promises of the dead process stay in
\* `promises` as the record of what was called.
Restart ==
  /\ \/ \E w \in Workers : queue[w] # <<>>
     \/ jsQueue # <<>>
     \/ cryptoModule # NoModule
  /\ Becomes(initializeThreads(
               [Cur EXCEPT !.databaseThread = 0, !.cryptoThread = 0,
                           !.networkThread = 0,
                           !.queue = [w \in Workers |-> <<>>],
                           !.jsQueue = <<>>,
                           !.cryptoModule = NoModule,
                           !.crashed = FALSE]))

SpecCryptoRestart == Init /\ [][NextCrypto \/ Restart]_vars
SpecCryptoAnyMode == InitAnyMode /\ [][NextCrypto]_vars

\* The worker threads keep running the tasks of their queues and the caller
\* thread keeps running the callbacks handed to jsInvoker_.
Fairness ==
  /\ WF_vars(DatabaseWorker)
  /\ WF_vars(CryptoWorker)
  /\ WF_vars(CallerRunsCallback)

SpecFair == Init /\ [][Next]_vars /\ Fairness
SpecCryptoFair == Init /\ [][NextCrypto]_vars /\ Fairness

\* ================================================================ claims
PromiseIds == 1..Len(promises)
Settles(h) == promises[h].resolves + promises[h].rejects

\* Work of promise h is still queued: a task on a worker or a callback.
Pending(h) ==
  \/ \E w \in Workers : \E i \in 1..Len(queue[w]) : queue[w][i].h = h
  \/ \E i \in 1..Len(jsQueue) : jsQueue[i].h = h

StoreApis ==
  {"getDraft", "updateDraft", "moveDraft", "getAllDrafts", "removeAllDrafts",
   "removeAllMessages", "getAllMessages", "beginTransaction", "execute",
   "commitTransaction", "getOlmPersistAccountData",
   "getOlmPersistSessionsData", "storeOlmPersistData"}

Called(h, api) == \E i \in 1..Len(promises[h].calls) : promises[h].calls[i].api = api
CallOk(h, api) ==
  \E i \in 1..Len(promises[h].calls) :
    promises[h].calls[i].api = api /\ promises[h].calls[i].ok
CallFailed(h, api) ==
  \E i \in 1..Len(promises[h].calls) :
    promises[h].calls[i].api = api /\ ~promises[h].calls[i].ok

IsBatch(h) == promises[h].op = "processMessageStoreOperations"
IsInit(h) == promises[h].op = "initializeCryptoAccount"
IsKeys(h) == promises[h].op \in {"getUserPublicKey", "getUserOneTimeKeys"}

\* In this step the storage task of batch h runs, and one of its operations'
\* execute() throws; `after` is the least number of calls made before it.
ExecuteFailsNow(h, after) ==
  /\ h \in 1..Len(promises')
  /\ promises'[h].op = "processMessageStoreOperations"
  /\ h > Len(promises) \/ promises[h].calls = <<>>
  /\ \E i \in (after + 1)..Len(promises'[h].calls) :
       /\ promises'[h].calls[i].api = "execute"
       /\ ~promises'[h].calls[i].ok

\* C1: a batch is applied as a whole or not at all: when execute() of one of
\* its operations fails after earlier operations of the batch ran, the
\* messages of the store are what they were before the batch.
C1_BatchAllOrNothing ==
  [][\A h \in 1..(Len(promises) + 1) :
       ExecuteFailsNow(h, 2) => messages' = messages]_vars

\* C2: every promise is settled exactly once: resolve and reject are called
\* at most once in total, and once no work of the call is left, exactly once.
C2_SettledExactlyOnce ==
  \A h \in PromiseIds :
    /\ Settles(h) <= 1
    /\ ~Pending(h) => Settles(h) = 1

\* C3: resolve and reject are only ever called on the caller thread, inside
\* a callback handed to jsInvoker_->invokeAsync, with and without workers.
C3_SettledOnCallerThread ==
  \A h \in PromiseIds :
    Settles(h) > 0 =>
      promises[h].settledOn = "js" /\ promises[h].viaInvoker

\* C3 witness: a call whose store call ran on the database worker and one
\* whose store call ran inline on the caller thread have both been settled.
C3_Witness ==
  /\ \E h \in PromiseIds :
       /\ promises[h].rejects = 1
       /\ \E i \in 1..Len(promises[h].calls) :
            promises[h].calls[i].on = "database"
  /\ \E h \in PromiseIds :
       /\ promises[h].resolves = 1
       /\ promises[h].op = "getDraft"
       /\ promises[h].calls[1].on = "js"

\* C4: when an operation of a batch fails, the transaction of the batch is
\* aborted: no transaction is open when the storage task of the batch ends.
C4_FailedBatchLeavesNoTransaction ==
  [][\A h \in 1..(Len(promises) + 1) :
       ExecuteFailsNow(h, 1) => ~txOpen']_vars

\* The path a call of initializeCryptoAccount took after constructing.
FreshPath(h) == Called(h, "storeAsB64")
RestorePath(h) == Called(h, "restoreFromB64")

\* C5: a call of initializeCryptoAccount made after an earlier call's promise
\* resolved generates no second secret key and constructs no new identity:
\* it does not write the secure store and does not take the fresh path.
C5_SecondInitRestores ==
  \A h \in PromiseIds :
    IsInit(h) /\ promises[h].seen # {} =>
      /\ ~Called(h, "secureStore.set")
      /\ ~FreshPath(h)
      /\ \A i \in 1..Len(promises[h].calls) :
           promises[h].calls[i].api = "CryptoModule" =>
             \E g \in promises[h].seen :
               \E j \in 1..Len(promises[g].calls) :
                 /\ promises[g].calls[j].api
                      \in {"storeOlmPersistData", "restoreFromB64"}
                 /\ promises[g].calls[j].arg = promises[h].calls[i].arg

\* C6: within one process lifetime the crypto module is constructed at most
\* once, whatever calls of initializeCryptoAccount are made.
C6_OneIdentityPerLifetime == constructed <= 1

\* C7: a failure of a store call inside a worker task becomes a rejection: the
\* promise is never resolved, is rejected once its work is done, and no call
\* of the operation follows the failed one.
C7_StoreFailureRejects ==
  \A h \in PromiseIds :
    \A i \in 1..Len(promises[h].calls) :
      (promises[h].calls[i].api \in StoreApis /\ ~promises[h].calls[i].ok) =>
        /\ promises[h].resolves = 0
        /\ ~Pending(h) => promises[h].rejects = 1
        /\ i = Len(promises[h].calls)

HasUnsupported(operations) ==
  \E i \in 1..Len(operations) : operations[i].type \notin SupportedTypes

\* C8: a batch holding an operation of an unsupported kind, at any position,
\* is answered by a rejection with the unsupported-operation error alone: the
\* call leaves the store and the worker queues as they were and makes no
\* store call, and its promise is never resolved.
C8_UnsupportedBatchTouchesNothing ==
  /\ \A operations \in Batches :
       HasUnsupported(operations) =>
         \A c \in FacadeChoices(Cur, "database",
                                [kind |-> "batch", ops |-> operations]) :
           LET r == processMessageStoreOperations(Cur, operations, c)
               h == Len(promises) + 1
           IN /\ r.messages = messages
              /\ r.drafts = drafts
              /\ r.olm = olm
              /\ r.txOpen = txOpen
              /\ r.queue = queue
              /\ r.promises[h].calls = <<>>
              /\ r.jsQueue =
                   Append(jsQueue,
                          SettleCallback(h, UnsupportedOperation, "undefined"))
  /\ \A h \in PromiseIds :
       (IsBatch(h) /\ promises[h].calls = <<>>
          /\ \A i \in 1..Len(queue["database"]) : queue["database"][i].h # h) =>
         /\ promises[h].resolves = 0
         /\ ~Pending(h) =>
              promises[h].rejects = 1
                /\ promises[h].error = UnsupportedOperation

\* C8 witness: a batch was rejected as unsupported while the store held a
\* message, and the message is still there.
C8_Witness ==
  /\ \E h \in PromiseIds :
       /\ IsBatch(h)
       /\ promises[h].rejects = 1
       /\ promises[h].error = UnsupportedOperation
       /\ promises[h].calls = <<>>
  /\ \E m \in MsgIds : messages[m] # Absent

\* The account was stored by a storeOlmPersistData that returned.
PersistedOk(account) ==
  \E h \in PromiseIds :
    \E i \in 1..Len(promises[h].calls) :
      /\ promises[h].calls[i].api = "storeOlmPersistData"
      /\ promises[h].calls[i].ok
      /\ promises[h].calls[i].arg = account

\* C9: getUserPublicKey and getUserOneTimeKeys resolve with the keys of an
\* identity only when the state of that identity has been persisted.
C9_KeysOnlyOfPersistedIdentity ==
  \A h \in PromiseIds :
    IsKeys(h) /\ promises[h].resolves > 0 => PersistedOk(promises[h].value[2])

\* C10: on the fresh path a failure of the persisting store call rejects the
\* promise with that error, and the promise is resolved only after the
\* persisting call returned without error.
C10_FreshPathPersistDecides ==
  \A h \in PromiseIds :
    IsInit(h) =>
      /\ CallFailed(h, "storeOlmPersistData") =>
           /\ promises[h].resolves = 0
           /\ ~Pending(h) =>
                promises[h].rejects = 1 /\ promises[h].error = StoreError
      /\ (FreshPath(h) /\ promises[h].resolves > 0) =>
           CallOk(h, "storeOlmPersistData")

\* C10 witness: a fresh-path call rejected because the persist failed, and a
\* fresh-path call resolved after the persist.
C10_Witness ==
  /\ \E h \in PromiseIds :
       /\ IsInit(h) /\ FreshPath(h)
       /\ CallFailed(h, "storeOlmPersistData")
       /\ promises[h].rejects = 1
  /\ \E h \in PromiseIds :
       /\ IsInit(h) /\ FreshPath(h)
       /\ CallOk(h, "storeOlmPersistData")
       /\ promises[h].resolves = 1

\* A task of promise h waits on worker w.
TaskQueued(h, w) == \E i \in 1..Len(queue[w]) : queue[w][i].h = h

FirstCall(h, api) ==
  IF Called(h, api)
  THEN CHOOSE i \in 1..Len(promises[h].calls) :
         /\ promises[h].calls[i].api = api
         /\ \A j \in 1..(i - 1) : promises[h].calls[j].api # api
  ELSE 0

\* C12: in initializeCryptoAccount the load of the persisted state comes
\* before the construction and feeds it: the constructor is called after
\* getOlmPersistAccountData of the same call, with the account the load
\* returned (a new account when it returned none); the crypto task is only
\* queued once the load was made, holding the persist the load built, and
\* never while the storage task of the call is still queued.
C12_LoadBeforeConstruct ==
  \A h \in PromiseIds :
    IsInit(h) =>
      LET load == FirstCall(h, "getOlmPersistAccountData")
          made == FirstCall(h, "CryptoModule")
          loaded == promises[h].calls[load].arg
      IN /\ made # 0 =>
              /\ load # 0 /\ load < made
              /\ IF loaded # 0
                 THEN promises[h].calls[made].arg = loaded /\ ~FreshPath(h)
                 ELSE ~RestorePath(h)
         /\ \A i \in 1..Len(queue["crypto"]) :
              queue["crypto"][i].h = h =>
                /\ load # 0
                /\ made = 0
                /\ queue["crypto"][i].persist.account = loaded
         /\ (\E i \in 1..Len(queue["database"]) :
               queue["database"][i].h = h
                 /\ queue["database"][i].kind = "load") =>
              load = 0 /\ made = 0 /\ ~TaskQueued(h, "crypto")

\* C12 witness: a call loaded a persisted account on the database worker and
\* then constructed the module from that account on the crypto worker.
C12_Witness ==
  \E h \in PromiseIds :
    /\ IsInit(h) /\ RestorePath(h)
    /\ promises[h].calls[FirstCall(h, "getOlmPersistAccountData")].arg # 0
    /\ promises[h].calls[FirstCall(h, "getOlmPersistAccountData")].on
         = "database"
    /\ promises[h].calls[FirstCall(h, "CryptoModule")].on = "crypto"
    /\ promises[h].calls[FirstCall(h, "CryptoModule")].arg
         = promises[h].calls[FirstCall(h, "getOlmPersistAccountData")].arg

SecureStoreApis == {"secureStore.get", "secureStore.set"}

\* C13: the secure store is read and written only inside the bootstrap
\* running on a worker thread: no get or set of it is made on the caller
\* thread.
C13_SecureStoreOffCallerThread ==
  \A h \in PromiseIds :
    \A i \in 1..Len(promises[h].calls) :
      promises[h].calls[i].api \in SecureStoreApis =>
        promises[h].calls[i].on # "js"

\* C14: with the worker threads the constructor made, every call on the
\* persistent store is made by a task running on the database worker, never
\* on the caller thread or the crypto worker; tasks holding store calls wait
\* on the database worker alone.
C14_StoreCallsOnDatabaseWorker ==
  /\ \A h \in PromiseIds :
       \A i \in 1..Len(promises[h].calls) :
         promises[h].calls[i].api \in StoreApis =>
           promises[h].calls[i].on = "database"
  /\ \A i \in 1..Len(queue["crypto"]) :
       queue["crypto"][i].kind \in {"construct", "keys"}

\* C14 witness: a call of initializeCryptoAccount loaded on the database
\* worker, constructed on the crypto worker and came back to the database
\* worker to store the new persist.
C14_Witness ==
  \E h \in PromiseIds :
    /\ IsInit(h)
    /\ CallOk(h, "storeOlmPersistData")
    /\ promises[h].calls[FirstCall(h, "storeOlmPersistData")].on = "database"
    /\ promises[h].calls[FirstCall(h, "storeAsB64")].on = "crypto"
    /\ promises[h].calls[FirstCall(h, "getOlmPersistAccountData")].on
         = "database"

CryptoApis ==
  {"CryptoModule", "storeAsB64", "restoreFromB64", "getIdentityKeys",
   "getOneTimeKeys"}

\* C15: with the worker threads the constructor made, cryptoModule is
\* constructed, replaced, serialized, restored and asked for keys only by
\* tasks running on the crypto worker: every crypto call is made there, and
\* the tasks that touch cryptoModule wait on the crypto worker alone.
C15_CryptoCallsOnCryptoWorker ==
  /\ \A h \in PromiseIds :
       \A i \in 1..Len(promises[h].calls) :
         promises[h].calls[i].api \in CryptoApis =>
           promises[h].calls[i].on = "crypto"
  /\ \A i \in 1..Len(queue["database"]) :
       queue["database"][i].kind \notin {"construct", "keys"}

\* C15 witness: a module was constructed and serialized, another call
\* restored it, and its keys were exported, all on the crypto worker.
C15_Witness ==
  /\ \E h \in PromiseIds :
       /\ CallOk(h, "storeAsB64")
       /\ promises[h].calls[FirstCall(h, "CryptoModule")].on = "crypto"
  /\ \E h \in PromiseIds :
       /\ IsKeys(h) /\ promises[h].resolves = 1
       /\ promises[h].calls[1].on = "crypto"
  /\ \E h \in PromiseIds :
       /\ CallOk(h, "restoreFromB64")
       /\ promises[h].calls[FirstCall(h, "restoreFromB64")].on = "crypto"

\* The callback reads a local of the task that handed it over through a
\* reference (the capture &messagesVector of line 195).
ReadsTaskLocalByReference(cb) == cb.kind = "messages" /\ cb.error = NoError

\* C16: a completion callback reads only what was copied or moved into it:
\* no callback waiting for the caller thread reads a local of its task by
\* reference, the process does not die reading one, and getAllMessages
\* resolves with the messages the store returned.
C16_CallbacksOwnWhatTheyRead ==
  /\ \A i \in 1..Len(jsQueue) : ~ReadsTaskLocalByReference(jsQueue[i])
  /\ ~crashed
  /\ \A h \in PromiseIds :
       (promises[h].op = "getAllMessages" /\ promises[h].resolves > 0) =>
         \A i \in 1..Len(promises[h].value) :
           promises[h].value[i] # "garbage"

\* C17: a failure raised by a crypto call inside a crypto task is captured
\* and becomes the rejection of the promise: it does not leave the task, the
\* promise is not resolved, and it is rejected once the work of the call is
\* done.
C17_CryptoFailureRejects ==
  \A h \in PromiseIds :
    \A i \in 1..Len(promises[h].calls) :
      (promises[h].calls[i].api \in CryptoApis /\ ~promises[h].calls[i].ok) =>
        /\ ~promises[h].escaped
        /\ promises[h].resolves = 0
        /\ ~Pending(h) => promises[h].rejects = 1

\* C18: every promise is eventually settled: once a facade call has returned
\* its promise, resolve or reject is eventually called on it, whatever other
\* calls are in flight and whichever collaborator calls fail.
C18_EveryHandleSettles ==
  \A h \in 1..MaxCryptoCalls :
    (Len(promises) >= h) ~> (Len(promises) >= h /\ Settles(h) >= 1)

\* The drafts of the store after the successful draft writes of the first n
\* calls, applied in the order the calls were made.
RECURSIVE DraftsAfter(_)
DraftsAfter(n) ==
  IF n = 0 THEN <<>>
  ELSE LET d == DraftsAfter(n - 1)
           p == promises[n]
       IN IF p.calls = <<>> \/ ~p.calls[1].ok THEN d
          ELSE CASE p.op = "updateDraft" ->
                      QE_updateDraft(d, p.calls[1].arg[1], p.calls[1].arg[2])
                 [] p.op = "moveDraft" ->
                      QE_moveDraft(d, p.calls[1].arg[1], p.calls[1].arg[2])
                 [] p.op = "removeAllDrafts" -> <<>>
                 [] OTHER -> d

\* C19: draft operations take effect in the order they were called: a
\* getDraft(K) whose store call succeeded yields the text that the successful
\* draft writes called before it, applied in call order, leave for K (the
\* text last written to K, the text moved to K, nothing after K was moved
\* away), whether or not the earlier promises were settled when it was called.
C19_DraftsInCallOrder ==
  \A h \in PromiseIds :
    (promises[h].op = "getDraft" /\ CallOk(h, "getDraft")) =>
      LET expected ==
            QE_getDraft(DraftsAfter(h - 1), promises[h].calls[1].arg[1])
      IN /\ promises[h].resolves > 0 => promises[h].value = expected
         /\ \A i \in 1..Len(jsQueue) :
              jsQueue[i].h = h => jsQueue[i].value = expected

\* C19 witness: updateDraft(K, T), moveDraft(K, K2) and getDraft(K2) were
\* called and run before any of their promises was settled, and the read
\* yields T.
C19_Witness ==
  /\ Len(promises) = 3
  /\ promises[1].op = "updateDraft" /\ CallOk(1, "updateDraft")
  /\ promises[1].calls[1].arg[2] # ""
  /\ promises[2].op = "moveDraft" /\ CallOk(2, "moveDraft")
  /\ promises[2].calls[1].arg[1] = promises[1].calls[1].arg[1]
  /\ promises[2].calls[1].arg[2] # promises[1].calls[1].arg[1]
  /\ promises[3].op = "getDraft" /\ CallOk(3, "getDraft")
  /\ promises[3].calls[1].arg[1] = promises[2].calls[1].arg[2]
  /\ promises[3].calls[1].on = "database"
  /\ \A h \in 1..3 : Settles(h) = 0
  /\ Len(jsQueue) = 3
  /\ jsQueue[3].value = promises[1].calls[1].arg[2]

\* The store calls of a batch of n operations that does not fail, made on
\* thread `on`.
CallsOfBatch(n, on) ==
  <<[on |-> on, api |-> "beginTransaction", ok |-> TRUE, arg |-> 0]>>
    \o [i \in 1..n |-> [on |-> on, api |-> "execute", ok |-> TRUE, arg |-> 0]]
    \o <<[on |-> on, api |-> "commitTransaction", ok |-> TRUE, arg |-> 0]>>

\* The messages after the operations of ops were applied one after another,
\* the first operation first.
RECURSIVE AppliedInOrder(_, _)
AppliedInOrder(msgs, ops) ==
  IF ops = <<>> THEN msgs
  ELSE AppliedInOrder(Execute(msgs, Head(ops)), Tail(ops))

\* C20: the operations of a batch are applied in the order the caller gave
\* them, each once, between one beginTransaction and one commitTransaction:
\* a batch of supported operations is queued as the caller gave it (or, with
\* no worker, applied at once); the job of a queued batch that meets no
\* failure makes the calls begin, execute x n, commit and leaves the messages
\* its operations give when applied first to last; and the calls logged for
\* any batch are a begin, then executes, then at most one commit at the end.
C20_BatchAppliedInOrder ==
  /\ \A operations \in Batches :
       ~HasUnsupported(operations) =>
         LET r == processMessageStoreOperations(Cur, operations, NoFailure)
             h == Len(promises) + 1
         IN IF databaseThread # 0
            THEN /\ r.queue["database"] =
                      Append(queue["database"],
                             [kind |-> "batch", h |-> h, ops |-> operations])
                 /\ r.messages = messages
                 /\ r.promises[h].calls = <<>>
            ELSE /\ r.promises[h].calls = CallsOfBatch(Len(operations), "js")
                 /\ r.messages = AppliedInOrder(messages, operations)
                 /\ ~r.txOpen
  /\ (queue["database"] # <<>> /\ Head(queue["database"]).kind = "batch") =>
       LET t == Head(queue["database"])
           r == RunTask([Cur EXCEPT !.queue["database"] = Tail(@)], t,
                        NoFailure, "database")
       IN /\ r.promises[t.h].calls = CallsOfBatch(Len(t.ops), "database")
          /\ r.messages = AppliedInOrder(messages, t.ops)
          /\ ~r.txOpen
  /\ \A h \in PromiseIds :
       IsBatch(h) =>
         \A i \in 1..Len(promises[h].calls) :
           LET api == promises[h].calls[i].api
           IN /\ (api = "beginTransaction") = (i = 1)
              /\ api = "commitTransaction" =>
                   /\ i = Len(promises[h].calls)
                   /\ \A j \in 1..(i - 1) : promises[h].calls[j].ok
              /\ api \in {"beginTransaction", "execute", "commitTransaction"}

\* C20 witness: the one batch called, of two operations whose result depends
\* on their order (replace a message, then rekey its thread), was applied by
\* the database worker with the calls begin, execute, execute, commit, and
\* the message is in the thread the rekey names.
C20_Witness ==
  /\ Len(promises) = 1
  /\ IsBatch(1)
  /\ promises[1].calls = CallsOfBatch(2, "database")
  /\ promises[1].resolves = 1
  /\ \E m \in MsgIds : messages[m] \in NewThreadIds

\* The account a call of initializeCryptoAccount got from its load, or 0.
LoadedAccount(h) ==
  IF Called(h, "getOlmPersistAccountData")
  THEN promises[h].calls[FirstCall(h, "getOlmPersistAccountData")].arg
  ELSE 0

\* C21: an identity whose state was not persisted (the persist failed, or
\* the process died before it ran) is never restored: every restore is from
\* an account a storeOlmPersistData stored without error, and a call whose
\* load found the store empty constructs a new identity on the fresh path.
C21_UnpersistedIdentityNotRestored ==
  \A h \in PromiseIds :
    IsInit(h) =>
      /\ \A i \in 1..Len(promises[h].calls) :
           promises[h].calls[i].api = "restoreFromB64" =>
             PersistedOk(promises[h].calls[i].arg)
      /\ (CallOk(h, "CryptoModule") /\ LoadedAccount(h) = 0) =>
           /\ ~RestorePath(h)
           /\ FreshPath(h)
           /\ \A g \in 1..(h - 1) :
                \A i \in 1..Len(promises[g].calls) :
                  (promises[g].calls[i].api = "CryptoModule"
                     /\ promises[g].calls[i].ok) =>
                    promises[g].calls[i].arg
                      # promises[h].calls[FirstCall(h, "CryptoModule")].arg

\* C21 witness: a first call constructed and serialized a fresh identity
\* that no store call persisted (it failed, or never ran); a later call
\* loaded an empty state, took the fresh path and persisted its identity.
C21_Witness ==
  \E g, h \in PromiseIds :
    /\ g < h /\ IsInit(g) /\ IsInit(h)
    /\ CallOk(g, "storeAsB64") /\ ~CallOk(g, "storeOlmPersistData")
    /\ CallOk(h, "getOlmPersistAccountData") /\ LoadedAccount(h) = 0
    /\ CallOk(h, "storeAsB64") /\ CallOk(h, "storeOlmPersistData")
    /\ promises[h].resolves = 1

\* C22: on the restore path nothing is written to the persistent store: a
\* call that restores neither serializes the identity nor calls
\* storeOlmPersistData, its constructor is given the account the load
\* returned, and the crypto task of a non-empty persist leaves the persisted
\* account and sessions as they are and hands no task to the database
\* worker, also when restoreFromB64 fails.
C22_RestoreWritesNothing ==
  /\ \A h \in PromiseIds :
       (IsInit(h) /\ RestorePath(h)) =>
         /\ ~Called(h, "storeAsB64")
         /\ ~Called(h, "storeOlmPersistData")
         /\ promises[h].calls[FirstCall(h, "CryptoModule")].arg
              = LoadedAccount(h)
         /\ LoadedAccount(h) # 0
  /\ (queue["crypto"] # <<>>
        /\ Head(queue["crypto"]).kind = "construct"
        /\ ~isEmpty(Head(queue["crypto"]).persist)) =>
       \A k \in 0..2 :
         LET t == Head(queue["crypto"])
             r == RunTask([Cur EXCEPT !.queue["crypto"] = Tail(@)], t,
                          [NoFailure EXCEPT !.crypto = k], "crypto")
         IN /\ r.olm = olm
            /\ r.queue["database"] = queue["database"]
            /\ k = 0 => r.cryptoModule.account = t.persist.account

\* C22 witness: a later call restored the identity an earlier call had
\* persisted, its promise resolved, and the store still holds that account.
C22_Witness ==
  \E g, h \in PromiseIds :
    /\ g < h /\ IsInit(g) /\ IsInit(h)
    /\ CallOk(g, "storeOlmPersistData")
    /\ CallOk(h, "restoreFromB64")
    /\ promises[h].resolves = 1
    /\ olm.account = LoadedAccount(h)
    /\ cryptoModule.account = olm.account
    /\ cryptoModule.serial > 1

\* C23: the secret key is generated and stored once, when the secure store
\* holds none, before anything is constructed, and is used unchanged from
\* then on: only the first call of initializeCryptoAccount writes the secure
\* store, it does so before its constructor call, every task of the
\* bootstrap carries the key the secure store holds, and the module in
\* memory was constructed with that key.
C23_KeyStoredBeforeConstruction ==
  /\ keysGenerated <= 1
  /\ secureStore = keysGenerated
  /\ cryptoModule.account # 0 => cryptoModule.key = secureStore
  /\ \A w \in Workers :
       \A i \in 1..Len(queue[w]) :
         queue[w][i].kind \in {"load", "construct"} =>
           queue[w][i].secretKey = secureStore /\ secureStore # 0
  /\ \A h \in PromiseIds :
       IsInit(h) =>
         /\ promises[h].calls[1].api = "secureStore.get"
         /\ Called(h, "secureStore.set") =
              (\A g \in 1..(h - 1) : ~IsInit(g))
         /\ Called(h, "secureStore.set") =>
              promises[h].calls[2].api = "secureStore.set"
         /\ Called(h, "CryptoModule") => secureStore # 0

\* C23 witness: the first call generated and stored the key, a second call
\* found it and wrote nothing, and the module the second call constructed
\* holds the stored key.
C23_Witness ==
  \E g, h \in PromiseIds :
    /\ g < h /\ IsInit(g) /\ IsInit(h)
    /\ Called(g, "secureStore.set") /\ CallOk(g, "CryptoModule")
    /\ ~Called(h, "secureStore.set") /\ CallOk(h, "CryptoModule")
    /\ cryptoModule.serial = 2
    /\ cryptoModule.key = secureStore
    /\ secureStore # 0

HasText(draft) == draft.text # ""

\* C24: getAllDrafts whose store call succeeded resolves with the drafts of
\* the store that have a text, in store order and nothing else: no draft
\* without text, no unfilled slot, the empty sequence for a store without
\* drafts; it is not rejected.
C24_GetAllDraftsListsDraftsWithText ==
  \A h \in PromiseIds :
    (promises[h].op = "getAllDrafts" /\ CallOk(h, "getAllDrafts")) =>
      LET expected == SelectSeq(DraftsAfter(h - 1), HasText)
      IN /\ promises[h].rejects = 0
         /\ promises[h].resolves > 0 => promises[h].value = expected
         /\ \A i \in 1..Len(jsQueue) :
              jsQueue[i].h = h =>
                /\ jsQueue[i].error = NoError
                /\ JsiDrafts(jsQueue[i].draftsVector, jsQueue[i].numDrafts)
                     = expected

\* C24 witness: the store holds a draft with text and a draft without, and
\* getAllDrafts resolved with the one that has text.
C24_Witness ==
  \E h \in PromiseIds :
    /\ promises[h].op = "getAllDrafts"
    /\ promises[h].resolves = 1
    /\ Len(promises[h].value) = 1
    /\ Len(drafts) = 2
    /\ promises[h].value[1] \in {drafts[1], drafts[2]}

\* C25: a batch with a malformed entry is answered on the caller thread by a
\* rejected promise: the call makes a promise and hands its rejection to the
\* caller thread, submits no task and leaves the store as it was.
C25_MalformedBatchRejected ==
  \A operations \in MalformedBatches :
    \A c \in FacadeChoices(Cur, "database",
                           [kind |-> "batch", ops |-> operations]) :
      LET r == processMessageStoreOperations(Cur, operations, c)
          h == Len(promises) + 1
      IN /\ r.queue = queue
         /\ r.messages = messages
         /\ r.drafts = drafts
         /\ r.olm = olm
         /\ r.txOpen = txOpen
         /\ Len(r.promises) = h
         /\ Len(r.jsQueue) = Len(jsQueue) + 1
         /\ r.jsQueue[Len(r.jsQueue)].h = h
         /\ r.jsQueue[Len(r.jsQueue)].error # NoError

\* The worker the operation of a promise hands its first task to.
WorkerOfOp(op) ==
  IF op \in {"getUserPublicKey", "getUserOneTimeKeys"} THEN "crypto"
  ELSE "database"

\* C26: scheduleOrRun runs the task inside the call when the worker does not
\* exist and queues it when the worker exists.  In the step of a facade call
\* that makes promise h: without the worker the work of the call is done when
\* the call returns (its completion is handed to the caller thread or the
\* exception of a crypto call left it), every collaborator call was made on
\* the caller thread and no queue changed, so calls run in the order made;
\* with the worker the task is the last of the worker's queue, no store or
\* crypto call was made and no completion handed over (but for the
\* rejection of an unsupported batch, which has no task).
C26_ScheduleOrRun ==
  [][Len(promises') = Len(promises) + 1 =>
       LET h == Len(promises')
           w == WorkerOfOp(promises'[h].op)
           completed == \E i \in 1..Len(jsQueue') : jsQueue'[i].h = h
       IN IF ThreadOf(Cur, w) = 0
          THEN /\ queue' = queue
               /\ completed \/ promises'[h].escaped
               /\ \A i \in 1..Len(promises'[h].calls) :
                    promises'[h].calls[i].on = "js"
               /\ promises'[h].op \notin
                    {"initializeCryptoAccount", "getUserPublicKey",
                     "getUserOneTimeKeys", "processMessageStoreOperations"}
                    => promises'[h].calls # <<>>
          ELSE /\ \A i \in 1..Len(promises'[h].calls) :
                    promises'[h].calls[i].api \in SecureStoreApis
               /\ ~promises'[h].escaped
               /\ \/ /\ ~completed
                     /\ Len(queue'[w]) = Len(queue[w]) + 1
                     /\ queue'[w] = Append(queue[w], queue'[w][Len(queue'[w])])
                     /\ queue'[w][Len(queue'[w])].h = h
                  \/ /\ promises'[h].op = "processMessageStoreOperations"
                     /\ queue' = queue
                     /\ jsQueue' =
                          Append(jsQueue,
                                 SettleCallback(h, UnsupportedOperation,
                                                "undefined"))]_vars

\* C26 witness: a call made without workers had its store call run on the
\* caller thread, and a call made after initializeThreads had its store call
\* run by the database worker.
C26_Witness ==
  \E g, h \in PromiseIds :
    /\ g < h
    /\ promises[g].op = "updateDraft" /\ promises[h].op = "updateDraft"
    /\ promises[g].calls # <<>> /\ promises[g].calls[1].on = "js"
    /\ promises[h].calls # <<>> /\ promises[h].calls[1].on = "database"
    /\ databaseThread # 0

\* The three worker pointers of a state.
ThreadsOf(s) == <<s.databaseThread, s.cryptoThread, s.networkThread>>

\* C27: initializeThreads is idempotent.  No subsystem ever has a worker
\* other than the first made for it; in every state a call of
\* initializeThreads leaves one worker per subsystem, keeps each existing
\* worker with the tasks queued on it, changes nothing else, and a second
\* call changes nothing at all.
C27_InitializeThreadsIdempotent ==
  LET r == initializeThreads(Cur)
  IN /\ \A i \in 1..3 : ThreadsOf(Cur)[i] \in {0, 1}
     /\ \A i \in 1..3 : ThreadsOf(r)[i] = 1
     /\ \A i \in 1..3 : ThreadsOf(Cur)[i] # 0 => ThreadsOf(r)[i] = ThreadsOf(Cur)[i]
     /\ r = [Cur EXCEPT !.databaseThread = r.databaseThread,
                        !.cryptoThread = r.cryptoThread,
                        !.networkThread = r.networkThread]
     /\ initializeThreads(r) = r

\* C27 witness: the workers were made by a call of initializeThreads after
\* an operation had run without them, and the database worker has a task
\* queued, which a further call of initializeThreads has to keep.
C27_Witness ==
  /\ \A i \in 1..3 : ThreadsOf(Cur)[i] = 1
  /\ queue["database"] # <<>>
  /\ \E h \in PromiseIds :
       \E i \in 1..Len(promises[h].calls) :
         /\ promises[h].calls[i].on = "js"
         /\ promises[h].calls[i].api \in StoreApis

\* C29: initializeCryptoAccount never overwrites an identity state that is
\* already persisted.  A call made after an earlier call's promise resolved
\* finds an account in the store at its load (the earlier call persisted or
\* restored one), so it executes no storeOlmPersistData, whether its load
\* succeeds or fails.
C29_PersistedIdentityNotOverwritten ==
  \A h \in PromiseIds :
    (IsInit(h) /\ promises[h].seen # {}) =>
      ~Called(h, "storeOlmPersistData")

\* The number of calls promise h had logged before the current step.
OldCalls(h) == IF h <= Len(promises) THEN Len(promises[h].calls) ELSE 0

\* The store calls promise h logs in the current step.
NewStoreCalls(h) ==
  {i \in (OldCalls(h) + 1)..Len(promises'[h].calls) :
     promises'[h].calls[i].api \in StoreApis}

\* C30: between the beginTransaction and the commitTransaction of a batch no
\* store call of another operation is executed.  A step in which a batch
\* begins or commits its transaction is the one run of the batch's task: it
\* makes every store call of the batch, the first of them beginTransaction,
\* no later one a second beginTransaction and commitTransaction, if made,
\* the last, all on one thread, and no other promise logs a store call in
\* that step.
C30_BatchTransactionIsolated ==
  [][\A h \in 1..Len(promises') :
       (/\ promises'[h].op = "processMessageStoreOperations"
        /\ \E i \in NewStoreCalls(h) :
             promises'[h].calls[i].api
               \in {"beginTransaction", "commitTransaction"})
         => LET log == promises'[h].calls
            IN /\ OldCalls(h) = 0
               /\ log[1].api = "beginTransaction"
               /\ \A i \in 2..Len(log) :
                    /\ log[i].api # "beginTransaction"
                    /\ log[i].on = log[1].on
                    /\ log[i - 1].ok
                    /\ log[i].api = "commitTransaction" => i = Len(log)
               /\ \A g \in 1..Len(promises') :
                    g # h => NewStoreCalls(g) = {}]_vars

\* C30 witness: a batch executed an operation and committed, and an
\* initializeCryptoAccount issued alongside it had its load and its persist
\* run on the database worker.
C30_Witness ==
  \E g, h \in PromiseIds :
    /\ IsInit(g) /\ CallOk(g, "storeOlmPersistData")
    /\ IsBatch(h) /\ CallOk(h, "commitTransaction")
    /\ Called(h, "execute")
    /\ \A i \in 1..Len(promises[h].calls) :
         promises[h].calls[i].on = "database"

\* No call of initializeCryptoAccount is in flight: each one made has
\* settled and has no task or callback queued.
NoInitInFlight ==
  \A h \in PromiseIds : IsInit(h) => Settles(h) >= 1 /\ ~Pending(h)

\* No store call made so far has failed.
NoStoreCallFailed ==
  \A h \in PromiseIds :
    \A i \in 1..Len(promises[h].calls) :
      promises[h].calls[i].api \in StoreApis => promises[h].calls[i].ok

\* C31: whenever no initializeCryptoAccount call is in flight and no store
\* call has failed, the account persisted in the store is the account of
\* the identity held in memory, for every interleaving of several
\* initializeCryptoAccount calls.
C31_PersistedIsIdentityInMemory ==
  (/\ NoInitInFlight
   /\ NoStoreCallFailed
   /\ cryptoModule # NoModule)
    => olm.account = cryptoModule.account

====
